---- MODULE Spec2Model ----
(***************************************************************************)
(* A model of flext.py (Turso3D/ThirdParty/FlextGL): the profile parser    *)
(* and the specification-resolution pipeline of parse_xml.                 *)
(*                                                                         *)
(* Text is modelled as follows.  A profile line is the sequence of its     *)
(* whitespace-separated tokens.  Names and XML text are strings, sliced    *)
(* and concatenated as the code does.  A missing XML attribute, and        *)
(* Python's None for a string, is the value Absent.  An optional object    *)
(* is a sequence of at most one element.                                   *)
(***************************************************************************)
EXTENDS Naturals, Sequences, FiniteSets, TLC

VARIABLES
    \* parse_profile
    lines, line_no, version, extensions, extension_set, status, error,
    \* parse_xml
    root, pc, types, enums, commands, subsetsGL, subsetsEXT, subsets,
    printed, requiredTypes, passthru, enumsDecl, functions, raised

profileVars == <<lines, line_no, version, extensions, extension_set, status, error>>
xmlVars == <<root, pc, types, enums, commands, subsetsGL, subsetsEXT, subsets,
             printed, requiredTypes, passthru, enumsDecl, functions, raised>>
vars == <<profileVars, xmlVars>>

Absent == "<absent>"

\* ---------------------------------------------------------------- helpers

RECURSIVE Concat(_)
Concat(ss) == IF ss = <<>> THEN <<>> ELSE Head(ss) \o Concat(Tail(ss))

RECURSIVE Reversed(_)
Reversed(s) == IF s = <<>> THEN <<>> ELSE Reversed(Tail(s)) \o <<Head(s)>>

Range(s) == {s[i] : i \in 1..Len(s)}

RECURSIVE SeqsUpTo(_, _)
SeqsUpTo(S, n) ==
    IF n = 0 THEN {<<>>}
    ELSE LET shorter == SeqsUpTo(S, n - 1)
         IN  shorter \cup {Append(s, e) : s \in {t \in shorter : Len(t) = n - 1}, e \in S}

\* Python's truth value of an optional string
Truthy(str) == str \notin {Absent, ""}

\* str.strip(), for blanks
RECURSIVE Strip(_)
Strip(str) ==
    IF Len(str) = 0 THEN str
    ELSE IF SubSeq(str, 1, 1) = " " THEN Strip(SubSeq(str, 2, Len(str)))
    ELSE IF SubSeq(str, Len(str), Len(str)) = " " THEN Strip(SubSeq(str, 1, Len(str) - 1))
    ELSE str

\* [entry for entry in xs if entry not in names]
Without(xs, names) == SelectSeq(xs, LAMBDA entry : entry \notin names)

\* ---------------------------------------------------------------- bounds

MaxLines == 4

\* ------------------------------------------------------ profile file parsing

Digits == {"0", "1", "2", "3", "4", "5", "6", "7", "8", "9"}

\* int() of a one-digit string
DigitValue(d) ==
    CASE d = "0" -> 0 [] d = "1" -> 1 [] d = "2" -> 2 [] d = "3" -> 3 [] d = "4" -> 4
      [] d = "5" -> 5 [] d = "6" -> 6 [] d = "7" -> 7 [] d = "8" -> 8 [] d = "9" -> 9

\* class Version: __init__
Version(major, minor, profile_or_api) ==
    LET api == IF profile_or_api \in {"es1", "es2"} THEN "gl" \o profile_or_api ELSE "gl"
    IN  [api     |-> api,
         major   |-> DigitValue(major),
         minor   |-> DigitValue(minor),
         profile |-> IF api = "gl" THEN profile_or_api ELSE ""]

\* Version.int_value
int_value(v) == 10 * v.major + v.minor

\* version_pattern: 'version\s+(\d)\.(\d)\s*(core|compatibility|es|)\s*$'
VersionMatch(line) ==
    /\ Len(line) \in {4, 5}
    /\ line[1] = "version"
    /\ line[2] \in Digits
    /\ line[3] = "."
    /\ line[4] \in Digits
    /\ Len(line) = 5 => line[5] \in {"core", "compatibility", "es"}

\* match.group(n) of version_pattern; group 3 is '' without a qualifier
VersionGroup(line, n) ==
    CASE n = 1 -> line[2]
      [] n = 2 -> line[4]
      [] n = 3 -> IF Len(line) = 5 THEN line[5] ELSE ""

\* extension_pattern: 'extension\s+(\w+)\s+(required|optional)\s*$'
ExtensionMatch(line) ==
    /\ Len(line) = 3
    /\ line[1] = "extension"
    /\ line[2] \notin {"#", "."}
    /\ line[3] \in {"required", "optional"}

\* comment_pattern: '#.*$|\s+$'  (a blank line has no tokens)
CommentMatch(line) == line = <<>> \/ line[1] = "#"

\* An extension request: the pair (name, required)
ExtensionRequest(name, required) == [name |-> name, required |-> required]

\* The lines a profile text is drawn from
ProfileLines ==
    { <<"version", "3", ".", "3", "core">>,
      <<"version", "1", ".", "0", "es">>,
      <<"version", "2", ".", "0">>,
      <<"extension", "foo", "required">>,
      <<"extension", "bar", "optional">>,
      <<"#", "comment">>,
      <<>>,
      <<"extension", "foo">> }

NoError == <<>>

\* A mutant of the loop body below: a version line always sets the version, and
\* no second one is refused
ProfileLineMutant ==
    /\ status = "running"
    /\ line_no < Len(lines)
    /\ LET n    == line_no + 1
           line == lines[n]
       IN  /\ line_no' = n
           /\ IF VersionMatch(line)
              THEN /\ version' = <<IF VersionGroup(line, 3) = "es"
                                   THEN Version(VersionGroup(line, 1), VersionGroup(line, 2),
                                                IF VersionGroup(line, 1) = "1" THEN "es1" ELSE "es2")
                                   ELSE Version(VersionGroup(line, 1), VersionGroup(line, 2),
                                                VersionGroup(line, 3))>>
                   /\ UNCHANGED <<extensions, extension_set, status, error>>
              ELSE IF ExtensionMatch(line)
              THEN IF line[2] \in extension_set
                   THEN /\ status' = "exit"
                        /\ error' = <<"Duplicate extension statement", n>>
                        /\ UNCHANGED <<version, extensions, extension_set>>
                   ELSE /\ extension_set' = extension_set \cup {line[2]}
                        /\ extensions' = Append(extensions,
                                                ExtensionRequest(line[2], line[3] = "required"))
                        /\ UNCHANGED <<version, status, error>>
              ELSE IF ~CommentMatch(line)
              THEN /\ status' = "exit"
                   /\ error' = <<"Syntax Error", n>>
                   /\ UNCHANGED <<version, extensions, extension_set>>
              ELSE UNCHANGED <<version, extensions, extension_set, status, error>>
    /\ UNCHANGED <<lines, xmlVars>>

\* One iteration of the loop over the file's lines (flext.py:86-113)
ProfileLine ==
    /\ status = "running"
    /\ line_no < Len(lines)
    /\ LET n    == line_no + 1
           line == lines[n]
       IN  /\ line_no' = n
           /\ IF VersionMatch(line)
              THEN IF version # <<>>
                   THEN /\ status' = "exit"
                        /\ error' = <<"Duplicate version statement", n>>
                        /\ UNCHANGED <<version, extensions, extension_set>>
                   ELSE /\ version' = <<IF VersionGroup(line, 3) = "es"
                                        THEN Version(VersionGroup(line, 1), VersionGroup(line, 2),
                                                     IF VersionGroup(line, 1) = "1" THEN "es1" ELSE "es2")
                                        ELSE Version(VersionGroup(line, 1), VersionGroup(line, 2),
                                                     VersionGroup(line, 3))>>
                        /\ UNCHANGED <<extensions, extension_set, status, error>>
              ELSE IF ExtensionMatch(line)
              THEN IF line[2] \in extension_set
                   THEN /\ status' = "exit"
                        /\ error' = <<"Duplicate extension statement", n>>
                        /\ UNCHANGED <<version, extensions, extension_set>>
                   ELSE /\ extension_set' = extension_set \cup {line[2]}
                        /\ extensions' = Append(extensions,
                                                ExtensionRequest(line[2], line[3] = "required"))
                        /\ UNCHANGED <<version, status, error>>
              ELSE IF ~CommentMatch(line)
              THEN /\ status' = "exit"
                   /\ error' = <<"Syntax Error", n>>
                   /\ UNCHANGED <<version, extensions, extension_set>>
              ELSE UNCHANGED <<version, extensions, extension_set, status, error>>
    /\ UNCHANGED <<lines, xmlVars>>

\* return version, extensions (flext.py:115)
ProfileReturn ==
    /\ status = "running"
    /\ line_no = Len(lines)
    /\ status' = "returned"
    /\ UNCHANGED <<lines, line_no, version, extensions, extension_set, error, xmlVars>>

\* The pipeline's variables while only the profile parser runs
XmlIdle ==
    /\ root = [types |-> <<>>, enums |-> <<>>, commands |-> <<>>,
               features |-> <<>>, extensions |-> <<>>]
    /\ pc = "idle"
    /\ types = <<>> /\ enums = <<>> /\ commands = <<>>
    /\ subsetsGL = <<>> /\ subsetsEXT = <<>> /\ subsets = <<>>
    /\ printed = <<>> /\ requiredTypes = {}
    /\ passthru = "" /\ enumsDecl = "" /\ functions = <<>>
    /\ raised = NoError

InitProfile ==
    /\ lines \in SeqsUpTo(ProfileLines, MaxLines)
    /\ line_no = 0
    /\ version = <<>>
    /\ extensions = <<>>
    /\ extension_set = {}
    /\ status = "running"
    /\ error = NoError
    /\ XmlIdle

NextProfile == ProfileLine \/ ProfileReturn

SpecProfile == InitProfile /\ [][NextProfile]_vars

\* ------------------------------------------------------------ C8

IsVersionLine(n) == VersionMatch(lines[n])

WellFormed == \A n \in 1..Len(lines) :
                 VersionMatch(lines[n]) \/ ExtensionMatch(lines[n]) \/ CommentMatch(lines[n])

VersionLineNos == {n \in 1..Len(lines) : IsVersionLine(n)}

\* The line number of the second version line
SecondVersionLine ==
    CHOOSE n \in VersionLineNos : Cardinality({m \in VersionLineNos : m < n}) = 1

\* Lines that repeat the extension name of an earlier line
RepeatedExtensionLineNos ==
    {n \in 1..Len(lines) :
        /\ ExtensionMatch(lines[n])
        /\ \E m \in 1..(n - 1) : ExtensionMatch(lines[m]) /\ lines[m][2] = lines[n][2]}

Finished == status \in {"returned", "exit"}

\* C8 as stated: a well-formed profile text with two or more version lines
\* always ends in the duplicate-version error at the second version line.
C8_DuplicateVersionAlways ==
    (Finished /\ WellFormed /\ Cardinality(VersionLineNos) >= 2)
        => /\ status = "exit"
           /\ error = <<"Duplicate version statement", SecondVersionLine>>

\* C8 amended: such a text never returns a result; it ends in the
\* duplicate-version error at the second version line unless an extension name
\* is repeated on an earlier line, and then in the duplicate-extension error at
\* the first such line.
C8_DuplicateVersionUnlessEarlierError ==
    (Finished /\ WellFormed /\ Cardinality(VersionLineNos) >= 2)
        => /\ status = "exit"
           /\ LET early == {n \in RepeatedExtensionLineNos : n < SecondVersionLine}
              IN  IF early = {}
                  THEN error = <<"Duplicate version statement", SecondVersionLine>>
                  ELSE error = <<"Duplicate extension statement",
                                 CHOOSE n \in early : \A m \in early : n <= m>>

\* The duplicate-version error raised with extension and comment lines between
\* the two version lines.
C8_Witness ==
    /\ status = "exit"
    /\ WellFormed
    /\ error = <<"Duplicate version statement", 4>>
    /\ VersionLineNos = {1, 4}
    /\ ExtensionMatch(lines[2])
    /\ CommentMatch(lines[3])

\* ------------------------------------------------------- XML spec file parsing

MaxTypes == 3

\* An element's child: its tag, text and tail
Child(tag, text, tail) == [tag |-> tag, text |-> text, tail |-> tail]

\* safe_text
safe_text(text) == IF text = Absent THEN "" ELSE text

RECURSIVE ExtractChildren(_, _)
ExtractChildren(children, substitutes) ==
    IF children = <<>> THEN ""
    ELSE LET item == Head(children)
         IN  (IF item.tag \in DOMAIN substitutes THEN substitutes[item.tag]
                                                ELSE safe_text(item.text))
             \o safe_text(item.tail)
             \o ExtractChildren(Tail(children), substitutes)

\* xml_extract_all_text
xml_extract_all_text(node, substitutes) ==
    safe_text(node.text) \o ExtractChildren(node.children, substitutes)

\* node.find(tag): the first child with that tag, if any
Find(node, tag) ==
    LET hits == SelectSeq(node.children, LAMBDA c : c.tag = tag)
    IN  IF hits = <<>> THEN <<>> ELSE <<Head(hits)>>

\* class Type
Type(api, name, definition, dependent) ==
    [api |-> api, name |-> name, definition |-> definition, dependent |-> dependent]

\* The first loop of parse_xml_types: one Type per element that passes the api
\* filter (flext.py:198-204)
RECURSIVE CollectTypes(_, _)
CollectTypes(elements, api) ==
    IF elements = <<>> THEN <<>>
    ELSE LET type == Head(elements)
             rest == CollectTypes(Tail(elements), api)
         IN  IF type.api # Absent /\ type.api # api THEN rest
             ELSE LET name == IF type.name # Absent THEN type.name
                                                    ELSE Find(type, "name")[1].text
                      definition == xml_extract_all_text(type, [apientry |-> "APIENTRY"])
                  IN  <<Type(type.api, name, definition, type.requires)>> \o rest

\* A mutant of the loop below that never skips an entry
RECURSIVE UniqueTypesKeepAll(_, _)
UniqueTypesKeepAll(rtypes, unique_type_names) ==
    IF rtypes = <<>> THEN <<>>
    ELSE <<Head(rtypes)>> \o UniqueTypesKeepAll(Tail(rtypes), unique_type_names)

\* The second loop of parse_xml_types, over reversed(types): the entries kept,
\* in the order kept (flext.py:209-217)
RECURSIVE UniqueTypes(_, _)
UniqueTypes(rtypes, unique_type_names) ==
    IF rtypes = <<>> THEN <<>>
    ELSE LET type == Head(rtypes)
         IN  IF /\ type.name \in DOMAIN unique_type_names
                /\ ~Truthy(type.api)
                /\ Truthy(unique_type_names[type.name])
             THEN UniqueTypes(Tail(rtypes), unique_type_names)
             ELSE <<type>> \o UniqueTypes(Tail(rtypes),
                                          [n \in DOMAIN unique_type_names \cup {type.name} |->
                                              IF n = type.name THEN type.api
                                                               ELSE unique_type_names[n]])

EmptyDict == [n \in {} |-> Absent]

\* parse_xml_types
parse_xml_types(r, api) ==
    Reversed(UniqueTypes(Reversed(CollectTypes(r.types, api)), EmptyDict))

\* The <type> elements a document is drawn from: with the name as an attribute,
\* or as a <name> child next to an <apientry/> child
TypeElements ==
    { [api |-> a, name |-> n, requires |-> Absent,
       text |-> "typedef int " \o n \o ";", children |-> <<>>]
        : a \in {Absent, "gl", "gles2"}, n \in {"T", "U"} }
    \cup
    { [api |-> a, name |-> Absent, requires |-> Absent,
       text |-> "typedef void (",
       children |-> <<Child("apientry", Absent, " *"), Child("name", n, ")(void);")>>]
        : a \in {Absent, "gl", "gles2"}, n \in {"T", "U"} }

EmptyRoot == [types |-> <<>>, enums |-> <<>>, commands |-> <<>>,
              features |-> <<>>, extensions |-> <<>>]

\* The Version objects parse_profile can hand to parse_xml
Versions == { Version("1", "0", ""), Version("1", "0", "core"), Version("2", "0", "es2") }

\* types = parse_xml_types(root, version.api) (flext.py:346)
ParseXmlTypes ==
    /\ pc = "types"
    /\ types' = parse_xml_types(root, version[1].api)
    /\ pc' = "enums"
    /\ UNCHANGED <<profileVars, root, enums, commands, subsetsGL, subsetsEXT, subsets,
                   printed, requiredTypes, passthru, enumsDecl, functions, raised>>

\* The profile parser's variables once it has returned (version, extensions)
ProfileReturned(v, exts) ==
    /\ lines = <<>> /\ line_no = 0
    /\ version = <<v>>
    /\ extensions = exts
    /\ extension_set = {e.name : e \in Range(exts)}
    /\ status = "returned"
    /\ error = NoError

XmlStart(r, at) ==
    /\ root = r
    /\ pc = at
    /\ types = <<>> /\ enums = EmptyDict /\ commands = EmptyDict
    /\ subsetsGL = <<>> /\ subsetsEXT = <<>> /\ subsets = <<>>
    /\ printed = <<>> /\ requiredTypes = {}
    /\ passthru = "" /\ enumsDecl = "" /\ functions = <<>>
    /\ raised = NoError

InitTypes ==
    /\ \E v \in Versions : ProfileReturned(v, <<>>)
    /\ \E ts \in SeqsUpTo(TypeElements, MaxTypes) :
          XmlStart([EmptyRoot EXCEPT !.types = ts], "types")

NextTypes == ParseXmlTypes

SpecTypes == InitTypes /\ [][NextTypes]_vars

\* ------------------------------------------------------------ C3

\* The types that pass the api filter, as the first loop collects them
Collected == CollectTypes(root.types, version[1].api)

PositionsOf(ts, name, specific) ==
    {i \in 1..Len(ts) : ts[i].name = name /\ (ts[i].api # Absent) = specific}

\* name has one api-agnostic and one api-specific declaration after filtering
OneOfEach(name) ==
    /\ Cardinality(PositionsOf(Collected, name, FALSE)) = 1
    /\ Cardinality(PositionsOf(Collected, name, TRUE)) = 1

AgnosticFirst(name) ==
    \A i \in PositionsOf(Collected, name, FALSE) :
        \A j \in PositionsOf(Collected, name, TRUE) : i < j

\* The returned list holds one entry for name, the api-specific declaration
OnlySpecificKept(name) ==
    /\ Cardinality({i \in 1..Len(types) : types[i].name = name}) = 1
    /\ \A i \in 1..Len(types) :
          types[i].name = name =>
            \E j \in PositionsOf(Collected, name, TRUE) : types[i] = Collected[j]

TypeNames == {Collected[i].name : i \in 1..Len(Collected)}

\* C3 as stated: whatever the declaration order, a name with one api-agnostic
\* and one api-specific declaration is returned once, as the api-specific one.
C3_SpecificWinsEitherOrder ==
    pc = "enums" => \A name \in TypeNames : OneOfEach(name) => OnlySpecificKept(name)

\* C3 amended: when the api-agnostic declaration comes before the api-specific
\* one, the name is returned once, as the api-specific declaration.
C3_SpecificWinsWhenDeclaredLater ==
    pc = "enums" => \A name \in TypeNames :
                      (OneOfEach(name) /\ AgnosticFirst(name)) => OnlySpecificKept(name)

\* An api-agnostic T followed by an api-specific T, resolved to the specific one.
C3_Witness ==
    /\ pc = "enums"
    /\ OneOfEach("T") /\ AgnosticFirst("T")
    /\ OnlySpecificKept("T")
    /\ \E i \in 1..Len(types) : types[i].name = "T" /\ types[i].api = version[1].api

\* ------------------------------------------------- enums and commands tables

\* dict[key] = value
DictPut(d, key, value) ==
    [k \in DOMAIN d \cup {key} |-> IF k = key THEN value ELSE d[k]]

\* parse_xml_enums: the loop, over the <enum> elements left
RECURSIVE ParseEnums(_, _, _)
ParseEnums(elements, api, table) ==
    IF elements = <<>> THEN table
    ELSE LET enum == Head(elements)
         IN  IF enum.api # Absent /\ enum.api # api
             THEN ParseEnums(Tail(elements), api, table)
             ELSE ParseEnums(Tail(elements), api,
                             DictPut(table, enum.name,
                                     IF enum.type # Absent THEN enum.value \o enum.type
                                                           ELSE enum.value))

parse_xml_enums(r, api) == ParseEnums(r.enums, api, EmptyDict)

\* xml_parse_type_name_pair: (name, type, ptype or None)
xml_parse_type_name_pair(node) ==
    [name  |-> Strip(Find(node, "name")[1].text),
     type  |-> Strip(xml_extract_all_text(node, [name |-> ""])),
     ptype |-> IF Find(node, "ptype") # <<>> THEN Strip(Find(node, "ptype")[1].text) ELSE Absent]

\* class Command
Command(rettype, name, params, reqTypes) ==
    [name |-> name, params |-> params, returntype |-> rettype, requiredTypes |-> reqTypes]

\* class Function
Function(rettype, name, params) ==
    [name |-> name, params |-> params, returntype |-> rettype]

\* One <command> element parsed (flext.py:226-240)
ParseCommand(cmd) ==
    LET proto  == xml_parse_type_name_pair(cmd.proto)
        pairs  == [i \in 1..Len(cmd.params) |-> xml_parse_type_name_pair(cmd.params[i])]
        ptypes == {proto.ptype} \cup {pairs[i].ptype : i \in 1..Len(pairs)}
    IN  Command(proto.type, proto.name,
                [i \in 1..Len(pairs) |-> <<pairs[i].name, pairs[i].type>>],
                ptypes \ {Absent})

RECURSIVE ParseCommands(_, _)
ParseCommands(elements, table) ==
    IF elements = <<>> THEN table
    ELSE LET c == ParseCommand(Head(elements))
         IN  ParseCommands(Tail(elements), DictPut(table, c.name, c))

\* parse_xml_commands
parse_xml_commands(r) == ParseCommands(r.commands, EmptyDict)

\* ------------------------------------------------------------ feature subsets

\* class APISubset
APISubset(name, ts, es, cs) == [name |-> name, types |-> ts, enums |-> es, commands |-> cs]

\* parse_int_version: '(\d)\.(\d)' -> 10 * major + minor
parse_int_version(version_str) ==
    DigitValue(SubSeq(version_str, 1, 1)) * 10 + DigitValue(SubSeq(version_str, 3, 3))

\* root.findall("./feature[@api='%s'][@name][@number]" % api)
FindFeatures(r, api) == SelectSeq(r.features, LAMBDA f : f.api = api)

\* A mutant of the test below that skips require sections only
SkipsSectionRequireOnly(actionSet, api, profile) ==
    /\ api = "gl"
    /\ actionSet.profile # Absent
    /\ actionSet.profile # profile
    /\ actionSet.tag = "require"

\* The test that skips a profile-tagged section (flext.py:258)
SkipsSection(actionSet, api, profile) ==
    /\ api = "gl"
    /\ actionSet.profile # Absent
    /\ actionSet.profile # profile

\* A mutant of the removal below that filters the enum lists by the type names
RemoveFromTypesOnly(subs, actionSet) ==
    [i \in 1..Len(subs) |->
        [subs[i] EXCEPT !.types    = Without(@, Range(actionSet.types)),
                        !.enums    = Without(@, Range(actionSet.types)),
                        !.commands = Without(@, Range(actionSet.commands))]]

\* A remove section applied to the subsets built so far (flext.py:267-270)
RemoveFrom(subs, actionSet) ==
    [i \in 1..Len(subs) |->
        [subs[i] EXCEPT !.types    = Without(@, Range(actionSet.types)),
                        !.enums    = Without(@, Range(actionSet.enums)),
                        !.commands = Without(@, Range(actionSet.commands))]]

\* The loop over a feature's sections (flext.py:257-270); st holds typeList,
\* enumList, commandList and the subsets list
RECURSIVE ApplySections(_, _, _, _)
ApplySections(sections, st, api, profile) ==
    IF sections = <<>> THEN st
    ELSE LET actionSet == Head(sections)
             rest      == Tail(sections)
         IN  IF SkipsSection(actionSet, api, profile)
             THEN ApplySections(rest, st, api, profile)
             ELSE LET st1 == IF actionSet.tag = "require"
                             THEN [st EXCEPT !.typeList    = @ \o actionSet.types,
                                             !.enumList    = @ \o actionSet.enums,
                                             !.commandList = @ \o actionSet.commands]
                             ELSE st
                      st2 == IF actionSet.tag = "remove"
                             THEN [st1 EXCEPT !.subsets = RemoveFrom(@, actionSet)]
                             ELSE st1
                  IN  ApplySections(rest, st2, api, profile)

\* A mutant of the test below that is off by one
TooNewStrict(feature, int_version) == parse_int_version(feature.number) >= int_version

\* The version test of the feature loop (flext.py:248)
TooNew(feature, int_version) == parse_int_version(feature.number) > int_version

\* The loop over the features found (flext.py:247-272)
RECURSIVE FeatureLoop(_, _, _, _, _)
FeatureLoop(features, subs, int_version, api, profile) ==
    IF features = <<>> THEN subs
    ELSE LET feature == Head(features)
         IN  IF TooNew(feature, int_version)
             THEN FeatureLoop(Tail(features), subs, int_version, api, profile)
             ELSE LET st == ApplySections(feature.children,
                                          [typeList |-> <<>>, enumList |-> <<>>,
                                           commandList |-> <<>>, subsets |-> subs],
                                          api, profile)
                  IN  FeatureLoop(Tail(features),
                                  Append(st.subsets,
                                         APISubset(SubSeq(feature.name, 4, Len(feature.name)),
                                                   st.typeList, st.enumList, st.commandList)),
                                  int_version, api, profile)

\* parse_xml_features
parse_xml_features(r, int_version, api, profile) ==
    FeatureLoop(FindFeatures(r, api), <<>>, int_version, api, profile)

\* ---------------------------------------------------------- extension subsets

\* root.find("./extensions/extension[@name='GL_%s']" % name)
FindExtension(r, name) ==
    LET hits == SelectSeq(r.extensions, LAMBDA e : e.name = "GL_" \o name)
    IN  IF hits = <<>> THEN <<>> ELSE <<Head(hits)>>

\* extract_names(extension, 'require/<kind>') over the require children
RequireTypes(extension)    == Concat([i \in 1..Len(extension.children) |-> extension.children[i].types])
RequireEnums(extension)    == Concat([i \in 1..Len(extension.children) |-> extension.children[i].enums])
RequireCommands(extension) == Concat([i \in 1..Len(extension.children) |-> extension.children[i].commands])

\* A mutant of the step below that still makes an empty subset
MissingExtensionEmptySubset(acc, name) ==
    [subsets |-> Append(acc.subsets, APISubset(name, <<>>, <<>>, <<>>)),
     printed |-> Append(acc.printed, name \o " is not an extension")]

\* What one requested name adds for an extension the document lacks
\* (flext.py:285-287)
MissingExtension(acc, name) ==
    [subsets |-> acc.subsets,
     printed |-> Append(acc.printed, name \o " is not an extension")]

\* The loop of parse_xml_extensions (flext.py:283-288); acc holds the subsets
\* and the lines printed
RECURSIVE ExtensionLoop(_, _, _)
ExtensionLoop(r, requests, acc) ==
    IF requests = <<>> THEN acc
    ELSE LET name      == Head(requests).name
             extension == FindExtension(r, name)
         IN  IF extension = <<>>
             THEN ExtensionLoop(r, Tail(requests), MissingExtension(acc, name))
             ELSE ExtensionLoop(r, Tail(requests),
                                [acc EXCEPT !.subsets =
                                    Append(@, APISubset(name,
                                                        RequireTypes(extension[1]),
                                                        RequireEnums(extension[1]),
                                                        RequireCommands(extension[1])))])

\* parse_xml_extensions
parse_xml_extensions(r, requests) ==
    ExtensionLoop(r, requests, [subsets |-> <<>>, printed |-> <<>>])

\* ------------------------------------------------------- dependency resolution

\* A result or the exception raised instead
Returned(value) == [raised |-> NoError, value |-> value]
KeyError(key, value) == [raised |-> <<"KeyError", key>>, value |-> value]

\* The first loop of resolve_type_dependencies (flext.py:331-334); commands[cmd]
\* raises KeyError for a command the table lacks
RECURSIVE DirectTypes(_, _, _)
DirectTypes(subs, cmdTable, required) ==
    IF subs = <<>> THEN Returned(required)
    ELSE LET subset  == Head(subs)
             withTs  == required \cup Range(subset.types)
             missing == SelectSeq(subset.commands, LAMBDA cmd : cmd \notin DOMAIN cmdTable)
         IN  IF missing # <<>> THEN KeyError(Head(missing), withTs)
             ELSE DirectTypes(Tail(subs), cmdTable,
                              withTs \cup UNION {cmdTable[cmd].requiredTypes :
                                                    cmd \in Range(subset.commands)})

\* The second loop (flext.py:336-338): it adds to the set it is testing
RECURSIVE DependentTypes(_, _)
DependentTypes(ts, required) ==
    IF ts = <<>> THEN required
    ELSE LET type == Head(ts)
         IN  DependentTypes(Tail(ts),
                            IF type.name \in required /\ Truthy(type.dependent)
                            THEN required \cup {type.dependent}
                            ELSE required)

\* resolve_type_dependencies
resolve_type_dependencies(subs, ts, cmdTable) ==
    LET direct == DirectTypes(subs, cmdTable, {})
    IN  IF direct.raised # NoError THEN direct
        ELSE Returned(DependentTypes(ts, direct.value))

\* ------------------------------------------------------------ output assembly

\* generate_passthru
RECURSIVE generate_passthru_from(_, _, _)
generate_passthru_from(dependencies, ts, text) ==
    IF ts = <<>> THEN text
    ELSE LET type == Head(ts)
         IN  generate_passthru_from(dependencies, Tail(ts),
                 IF type.name \in dependencies
                 THEN (IF text # "" THEN text \o "\n" ELSE text) \o type.definition
                 ELSE text)

generate_passthru(dependencies, ts) == generate_passthru_from(dependencies, ts, "")

\* The loop over one subset's enums (flext.py:307-308); enums[enumName] raises
\* KeyError for a name the table lacks
RECURSIVE EnumLines(_, _, _)
EnumLines(names, enumTable, text) ==
    IF names = <<>> THEN Returned(text)
    ELSE LET enumName == Head(names)
         IN  IF enumName \notin DOMAIN enumTable THEN KeyError(enumName, text)
             ELSE EnumLines(Tail(names), enumTable,
                            text \o "\n#define " \o enumName \o " " \o enumTable[enumName])

\* generate_enums: the loop over the subsets (flext.py:303-308)
RECURSIVE EnumSections(_, _, _)
EnumSections(subs, enumTable, text) ==
    IF subs = <<>> THEN Returned(text)
    ELSE LET subset == Head(subs)
         IN  IF subset.enums = <<>> THEN EnumSections(Tail(subs), enumTable, text)
             ELSE LET header == (IF text # "" THEN text \o "\n\n" ELSE text)
                                \o "/* GL_" \o subset.name \o " */\n"
                      body   == EnumLines(subset.enums, enumTable, header)
                  IN  IF body.raised # NoError THEN body
                      ELSE EnumSections(Tail(subs), enumTable, body.value)

generate_enums(subs, enumTable) == EnumSections(subs, enumTable, "")

\* A mutant of the step below that forgets the name
ForgetFunction(function_set, name) == function_set

\* function_set.add(name) (flext.py:322)
AddFunction(function_set, name) == function_set \cup {name}

\* The loop over one subset's commands (flext.py:319-322); acc holds
\* subset_functions and function_set
RECURSIVE SubsetFunctions(_, _, _)
SubsetFunctions(names, cmdTable, acc) ==
    IF names = <<>> THEN Returned(acc)
    ELSE LET name == Head(names)
         IN  IF name \in acc.function_set THEN SubsetFunctions(Tail(names), cmdTable, acc)
             ELSE IF name \notin DOMAIN cmdTable THEN KeyError(name, acc)
             ELSE SubsetFunctions(Tail(names), cmdTable,
                    [subset_functions |->
                        Append(acc.subset_functions,
                               Function(cmdTable[name].returntype,
                                        SubSeq(cmdTable[name].name, 3, Len(cmdTable[name].name)),
                                        cmdTable[name].params)),
                     function_set |-> AddFunction(acc.function_set, name)])

\* generate_functions: the loop over the subsets (flext.py:316-324)
RECURSIVE FunctionGroups(_, _, _, _)
FunctionGroups(subs, cmdTable, groups, function_set) ==
    IF subs = <<>> THEN Returned(groups)
    ELSE LET subset == Head(subs)
             got    == SubsetFunctions(subset.commands, cmdTable,
                                       [subset_functions |-> <<>>,
                                        function_set |-> function_set])
         IN  IF got.raised # NoError THEN KeyError(got.raised[2], groups)
             ELSE FunctionGroups(Tail(subs), cmdTable,
                                 Append(groups, <<subset.name, got.value.subset_functions>>),
                                 got.value.function_set)

generate_functions(subs, cmdTable) == FunctionGroups(subs, cmdTable, <<>>, {})

\* ------------------------------------------------------------------ parse_xml

\* enums = parse_xml_enums(root, version.api) (flext.py:347)
ParseXmlEnums ==
    /\ pc = "enums"
    /\ enums' = parse_xml_enums(root, version[1].api)
    /\ pc' = "commands"
    /\ UNCHANGED <<profileVars, root, types, commands, subsetsGL, subsetsEXT, subsets,
                   printed, requiredTypes, passthru, enumsDecl, functions, raised>>

\* commands = parse_xml_commands(root) (flext.py:348)
ParseXmlCommands ==
    /\ pc = "commands"
    /\ commands' = parse_xml_commands(root)
    /\ pc' = "features"
    /\ UNCHANGED <<profileVars, root, types, enums, subsetsGL, subsetsEXT, subsets,
                   printed, requiredTypes, passthru, enumsDecl, functions, raised>>

\* subsetsGL = parse_xml_features(root, version.int_value(), version.api,
\* version.profile) (flext.py:350)
ParseXmlFeatures ==
    /\ pc = "features"
    /\ subsetsGL' = parse_xml_features(root, int_value(version[1]), version[1].api,
                                       version[1].profile)
    /\ pc' = "extensions"
    /\ UNCHANGED <<profileVars, root, types, enums, commands, subsetsEXT, subsets,
                   printed, requiredTypes, passthru, enumsDecl, functions, raised>>

\* subsetsEXT = parse_xml_extensions(root, extensions) (flext.py:351)
ParseXmlExtensions ==
    /\ pc = "extensions"
    /\ LET got == parse_xml_extensions(root, extensions)
       IN  /\ subsetsEXT' = got.subsets
           /\ printed' = printed \o got.printed
    /\ pc' = "merge"
    /\ UNCHANGED <<profileVars, root, types, enums, commands, subsetsGL, subsets,
                   requiredTypes, passthru, enumsDecl, functions, raised>>

\* subsets = subsetsGL; subsets += subsetsEXT (flext.py:353-354): one list
\* under two names, extended in place
MergeSubsets ==
    /\ pc = "merge"
    /\ subsets' = subsetsGL \o subsetsEXT
    /\ subsetsGL' = subsetsGL \o subsetsEXT
    /\ pc' = "resolve"
    /\ UNCHANGED <<profileVars, root, types, enums, commands, subsetsEXT,
                   printed, requiredTypes, passthru, enumsDecl, functions, raised>>

\* requiredTypes = resolve_type_dependencies(subsets, types, commands) (flext.py:356)
ResolveTypeDependencies ==
    /\ pc = "resolve"
    /\ LET got == resolve_type_dependencies(subsets, types, commands)
       IN  IF got.raised # NoError
           THEN /\ raised' = got.raised
                /\ pc' = "raised"
                /\ UNCHANGED requiredTypes
           ELSE /\ requiredTypes' = got.value
                /\ pc' = "passthru"
                /\ UNCHANGED raised
    /\ UNCHANGED <<profileVars, root, types, enums, commands, subsetsGL, subsetsEXT, subsets,
                   printed, passthru, enumsDecl, functions>>

\* passthru = generate_passthru(requiredTypes, types) (flext.py:358)
GeneratePassthru ==
    /\ pc = "passthru"
    /\ passthru' = generate_passthru(requiredTypes, types)
    /\ pc' = "genenums"
    /\ UNCHANGED <<profileVars, root, types, enums, commands, subsetsGL, subsetsEXT, subsets,
                   printed, requiredTypes, enumsDecl, functions, raised>>

\* enums = generate_enums(subsets, enums) (flext.py:359)
GenerateEnums ==
    /\ pc = "genenums"
    /\ LET got == generate_enums(subsets, enums)
       IN  IF got.raised # NoError
           THEN /\ raised' = got.raised
                /\ pc' = "raised"
                /\ UNCHANGED enumsDecl
           ELSE /\ enumsDecl' = got.value
                /\ pc' = "functions"
                /\ UNCHANGED raised
    /\ UNCHANGED <<profileVars, root, types, enums, commands, subsetsGL, subsetsEXT, subsets,
                   printed, requiredTypes, passthru, functions>>

\* functions = generate_functions(subsets, commands) (flext.py:360), then
\* return passthru, enums, functions
GenerateFunctions ==
    /\ pc = "functions"
    /\ LET got == generate_functions(subsets, commands)
       IN  IF got.raised # NoError
           THEN /\ raised' = got.raised
                /\ pc' = "raised"
                /\ UNCHANGED functions
           ELSE /\ functions' = got.value
                /\ pc' = "done"
                /\ UNCHANGED raised
    /\ UNCHANGED <<profileVars, root, types, enums, commands, subsetsGL, subsetsEXT, subsets,
                   printed, requiredTypes, passthru, enumsDecl>>

\* ------------------------------------------------- documents for the feature pass

MaxFeatures == 2

\* A <require> or <remove> section of a feature: its profile attribute and the
\* names of its <type>, <enum> and <command> children
Section(tag, profile, names) ==
    [tag |-> tag, profile |-> profile,
     types |-> names.types, enums |-> names.enums, commands |-> names.commands]

Names1 == [types |-> <<"TA", "TB", "TC">>, enums |-> <<"EA", "EB">>, commands |-> <<"glA", "glB">>]
Names2 == [types |-> <<"TB">>, enums |-> <<"EA">>, commands |-> <<"glB">>]
Names3 == [types |-> <<"TC", "TA">>, enums |-> <<"EB">>, commands |-> <<"glA">>]

Sections ==
    {Section("require", p, Names1) : p \in {Absent, "core"}}
    \cup {Section("remove", p, Names2) : p \in {Absent, "core"}}
    \cup {Section("remove", Absent, Names3)}

\* The section lists a feature block is drawn from
SectionLists == {<<>>} \cup {<<a>> : a \in Sections} \cup {<<a, b>> : a \in Sections, b \in Sections}

\* A <feature> element
Feature(api, name, number, children) ==
    [api |-> api, name |-> name, number |-> number, children |-> children]

\* The feature blocks of one api: at level 1.0 with every section list, and a
\* level 3.0 block, newer than any requested version, that removes names
FeatureElements(api) ==
    {Feature(api, "GL_VERSION_1_0", "1.0", c) : c \in SectionLists}
    \cup {Feature(api, "GL_VERSION_3_0", "3.0", <<Section("remove", Absent, Names2)>>)}

InitFeatures ==
    \E v \in Versions :
        /\ ProfileReturned(v, <<>>)
        /\ \E fs \in SeqsUpTo(FeatureElements(v.api), MaxFeatures) :
              XmlStart([EmptyRoot EXCEPT !.features = fs], "features")

NextFeatures == ParseXmlFeatures

SpecFeatures == InitFeatures /\ [][NextFeatures]_vars

\* ------------------------------------------------------ C1, C6, C10

\* The feature blocks that get a subset: of the requested api and not newer
\* than the requested version, in document order
Applicable ==
    SelectSeq(root.features,
              LAMBDA f : f.api = version[1].api
                         /\ parse_int_version(f.number) <= 10 * version[1].major + version[1].minor)

\* A section takes effect unless, for the desktop api, it carries a profile tag
\* other than the requested profile
Effective(section) ==
    \/ version[1].api # "gl"
    \/ section.profile = Absent
    \/ section.profile = version[1].profile

EffectiveSections(feature, tag) ==
    SelectSeq(feature.children, LAMBDA s : s.tag = tag /\ Effective(s))

Kinds == {"types", "enums", "commands"}

NamesOf(section, kind) ==
    CASE kind = "types" -> section.types
      [] kind = "enums" -> section.enums
      [] kind = "commands" -> section.commands

\* The names of one kind a feature's effective require sections list, in order
Required(feature, kind) ==
    LET secs == EffectiveSections(feature, "require")
    IN  Concat([i \in 1..Len(secs) |-> NamesOf(secs[i], kind)])

\* The names of one kind a feature's effective remove sections list
Removed(feature, kind) ==
    LET secs == EffectiveSections(feature, "remove")
    IN  UNION {Range(NamesOf(secs[i], kind)) : i \in 1..Len(secs)}

FeaturesParsed == pc = "extensions"

\* C1 as stated: a feature block that is a require section listing three types
\* followed by a remove section listing the second of them yields a subset with
\* the first and the third type (checked for the last block, which no later
\* remove can touch).
C1_RemoveAppliesToOwnSubset ==
    FeaturesParsed =>
        \A j \in 1..Len(Applicable) :
            LET secs == Applicable[j].children
            IN  (/\ j = Len(Applicable)
                 /\ Len(secs) = 2
                 /\ secs[1].tag = "require" /\ Effective(secs[1])
                 /\ secs[2].tag = "remove" /\ Effective(secs[2])
                 /\ Len(secs[1].types) = 3
                 /\ secs[2].types = <<secs[1].types[2]>>)
                => /\ Len(subsetsGL) = Len(Applicable)
                   /\ subsetsGL[j].types = <<secs[1].types[1], secs[1].types[3]>>

\* C6: after the pass, the subset of an earlier feature holds no name that an
\* effective remove section of a later applicable feature lists, and what is
\* left of it is in the order the feature required it.
C6_RetroactiveRemoval ==
    FeaturesParsed =>
        /\ Len(subsetsGL) = Len(Applicable)
        /\ \A j \in 1..Len(Applicable) : \A kind \in Kinds :
              LET left == NamesOf(subsetsGL[j], kind)
              IN  /\ left = SelectSeq(Required(Applicable[j], kind),
                                      LAMBDA e : e \in Range(left))
                  /\ \A k \in (j + 1)..Len(Applicable) :
                        Range(left) \cap Removed(Applicable[k], kind) = {}

\* A later feature's remove section has taken TB, EA and glB out of the subset
\* of the feature before it.
C6_Witness ==
    /\ FeaturesParsed
    /\ Len(Applicable) = 2
    /\ Required(Applicable[1], "types") = <<"TA", "TB", "TC">>
    /\ Removed(Applicable[2], "types") = {"TB"}
    /\ subsetsGL[1].types = <<"TA", "TC">>
    /\ subsetsGL[1].enums = <<"EB">>
    /\ subsetsGL[1].commands = <<"glA">>

\* The document with every section that does not take effect deleted and the
\* profile tags of the others cleared
Conditioned(r) ==
    [r EXCEPT !.features =
        [i \in 1..Len(r.features) |->
            [r.features[i] EXCEPT !.children =
                LET kept == SelectSeq(r.features[i].children, Effective)
                IN  [n \in 1..Len(kept) |-> [kept[n] EXCEPT !.profile = Absent]]]]]

\* C10: the subsets are those of the document without its ineffective sections
\* and without profile tags: for the desktop api a require or remove section
\* tagged with another profile changes no subset, and for the other apis a tag
\* changes nothing.
C10_ProfileConditioning ==
    FeaturesParsed =>
        subsetsGL = parse_xml_features(Conditioned(root), int_value(version[1]),
                                       version[1].api, version[1].profile)

\* With an empty requested profile, a remove section tagged "core" in a later
\* feature has left the earlier subset whole.
C10_Witness ==
    /\ FeaturesParsed
    /\ version[1].api = "gl" /\ version[1].profile = ""
    /\ Len(Applicable) = 2
    /\ \E s \in Range(Applicable[2].children) :
          s.tag = "remove" /\ s.profile = "core" /\ "TB" \in Range(s.types)
    /\ subsetsGL[1].types = <<"TA", "TB", "TC">>

\* ------------------------------------- documents for the feature and extension passes

MaxRequested == 2

\* Feature blocks of both apis, at, below and above the requested levels
SimpleFeatures ==
    { Feature("gl",    "GL_VERSION_1_0",    "1.0", <<Section("require", Absent, Names1)>>),
      Feature("gl",    "GL_VERSION_3_0",    "3.0", <<Section("require", Absent, Names2)>>),
      Feature("gles2", "GL_ES_VERSION_1_0", "1.0", <<Section("require", Absent, Names3)>>),
      Feature("gles2", "GL_ES_VERSION_2_0", "2.0", <<Section("require", Absent, Names2)>>) }

\* An <extension> element; its children are its <require> sections
Extension(name, children) == [name |-> name, children |-> children]

GL_foo  == Extension("GL_foo", <<[types |-> <<"TA">>, enums |-> <<"EC">>, commands |-> <<"glC">>]>>)
GL_foo2 == Extension("GL_foo", <<>>)
GL_bar  == Extension("GL_bar", <<[types |-> <<>>, enums |-> <<"EA">>, commands |-> <<"glA">>],
                               [types |-> <<"TB">>, enums |-> <<>>, commands |-> <<"glC">>]>>)

\* The <extensions> lists a document is drawn from
ExtensionLists == { <<>>, <<GL_foo>>, <<GL_bar, GL_foo>>, <<GL_foo, GL_foo2>>, <<GL_foo2, GL_bar>> }

\* The extension lists parse_profile can return: no name twice
RequestLists ==
    LET pool == { ExtensionRequest("foo", TRUE), ExtensionRequest("bar", FALSE),
                  ExtensionRequest("baz", TRUE) }
    IN  {rs \in SeqsUpTo(pool, MaxRequested) :
            \A i \in 1..Len(rs) : \A j \in 1..Len(rs) : i # j => rs[i].name # rs[j].name}

InitSubsets ==
    /\ \E v \in Versions : \E rs \in RequestLists : ProfileReturned(v, rs)
    /\ \E fs \in SeqsUpTo(SimpleFeatures, MaxFeatures) : \E es \in ExtensionLists :
          XmlStart([EmptyRoot EXCEPT !.features = fs, !.extensions = es], "features")

NextSubsets == ParseXmlFeatures \/ ParseXmlExtensions \/ MergeSubsets

SpecSubsets == InitSubsets /\ [][NextSubsets]_vars

\* ------------------------------------------------------------ C7, C9

\* The document has no entry for the requested name
Unknown(request) == \A i \in 1..Len(root.extensions) : root.extensions[i].name # "GL_" \o request.name

NamesIn(seq) == [i \in 1..Len(seq) |-> seq[i].name]

ExtensionsParsed == pc \in {"merge", "resolve"}

\* C7: the lines printed are one warning per requested extension the document
\* lacks, and the extension subsets are one per other requested extension,
\* named by the requested name, in the order requested; the run goes on.
C7_UnknownExtensionsSkipped ==
    ExtensionsParsed =>
        /\ raised = NoError
        /\ LET unknown == NamesIn(SelectSeq(extensions, Unknown))
           IN  printed = [i \in 1..Len(unknown) |-> unknown[i] \o " is not an extension"]
        /\ NamesIn(subsetsEXT) = NamesIn(SelectSeq(extensions, LAMBDA r : ~Unknown(r)))

\* An unknown extension requested before a known one: one warning, one subset.
C7_Witness ==
    /\ pc = "resolve"
    /\ Len(extensions) = 2
    /\ Unknown(extensions[1]) /\ ~Unknown(extensions[2])
    /\ printed = <<"baz is not an extension">>
    /\ NamesIn(subsetsEXT) = <<extensions[2].name>>

\* C9: the merged subset list is one subset per applicable feature block, in
\* document order, then one per requested extension the document has, in the
\* order requested.
C9_SubsetOrder ==
    pc = "resolve" =>
        LET feats == NamesIn(Applicable)
            known == NamesIn(SelectSeq(extensions, LAMBDA r : ~Unknown(r)))
        IN  NamesIn(subsets) =
                [i \in 1..Len(feats) |-> SubSeq(feats[i], 4, Len(feats[i]))] \o known

\* A document with an applicable and a too-new feature of the requested api and
\* a feature of another api, and two known extensions requested.
C9_Witness ==
    /\ pc = "resolve"
    /\ Len(root.features) = 2
    /\ Len(Applicable) = 1
    /\ \E f \in Range(root.features) : f.api = version[1].api /\ f.number = "3.0"
    /\ Len(extensions) = 2
    /\ Len(subsets) = 3
    /\ subsets[1].name = "VERSION_1_0"
    /\ subsets[2].name = extensions[1].name
    /\ subsets[3].name = extensions[2].name

\* -------------------------------------------------- the tables of a document

\* An element with text and children
Node(text, children) == [text |-> text, children |-> children]

\* A <command> element: its <proto> and its <param> children
CommandElement(proto, params) == [proto |-> proto, params |-> params]

\* void glA(TA x);  TB glB(void);  void glC(int n);
CmdA == CommandElement(Node("void ", <<Child("name", "glA", Absent)>>),
                       <<Node(Absent, <<Child("ptype", "TA", " "), Child("name", "x", Absent)>>)>>)
CmdB == CommandElement(Node(Absent, <<Child("ptype", "TB", " "), Child("name", "glB", Absent)>>),
                       <<>>)
CmdC == CommandElement(Node("void ", <<Child("name", "glC", Absent)>>),
                       <<Node("int ", <<Child("name", "n", Absent)>>)>>)

\* The <commands> lists a document is drawn from
CommandLists == { <<CmdA, CmdB, CmdC>>, <<CmdA, CmdB>> }

\* An <enum> element
EnumElement(api, name, value, type) == [api |-> api, name |-> name, value |-> value, type |-> type]

\* The <enums> lists a document is drawn from
EnumLists ==
    { <<EnumElement(Absent, "EA", "0x1", Absent), EnumElement("gl", "EB", "0x2", Absent),
        EnumElement("gles2", "EB", "0x2", "u"), EnumElement(Absent, "EC", "0x3", Absent)>>,
      <<EnumElement(Absent, "EA", "0x1", Absent), EnumElement("gles2", "EB", "0x2", "u"),
        EnumElement(Absent, "EC", "0x3", Absent)>>,
      <<EnumElement(Absent, "EA", "0x1", Absent), EnumElement("gl", "EB", "0x2", Absent),
        EnumElement("gles2", "EB", "0x2", "u")>> }

\* TA; TB, which requires TA; TC, which requires TB
RootTypes ==
    << [api |-> Absent, name |-> "TA", requires |-> Absent, text |-> "typedef int TA;", children |-> <<>>],
       [api |-> Absent, name |-> "TB", requires |-> "TA",   text |-> "typedef TA TB;",  children |-> <<>>],
       [api |-> Absent, name |-> "TC", requires |-> "TB",   text |-> "typedef TB TC;",  children |-> <<>>] >>

\* ------------------------------------------------------------ the whole of parse_xml

InitXml ==
    /\ \E v \in Versions : \E rs \in RequestLists : ProfileReturned(v, rs)
    /\ \E fs \in SeqsUpTo(SimpleFeatures, MaxFeatures) : \E es \in ExtensionLists :
       \E ens \in EnumLists : \E cs \in CommandLists :
          XmlStart([types |-> RootTypes, enums |-> ens, commands |-> cs,
                    features |-> fs, extensions |-> es], "types")

NextXml ==
    \/ ParseXmlTypes
    \/ ParseXmlEnums
    \/ ParseXmlCommands
    \/ ParseXmlFeatures
    \/ ParseXmlExtensions
    \/ MergeSubsets
    \/ ResolveTypeDependencies
    \/ GeneratePassthru
    \/ GenerateEnums
    \/ GenerateFunctions

SpecXml == InitXml /\ [][NextXml]_vars

\* ------------------------------------------------------------ C4

\* C4 as stated: whatever the document and the selection, output assembly
\* completes: no lookup of an enum or a command raises.
C4_AssemblyNeverRaises == pc # "raised"

\* ------------------------------------------ inputs of resolve_type_dependencies

\* The resolved types a type list is drawn from
ResolvedTypes ==
    { Type(Absent, "TA", "typedef int TA;", "TB"),
      Type(Absent, "TB", "typedef int TB;", "TC"),
      Type(Absent, "TC", "typedef int TC;", Absent),
      Type("gl",   "TB", "typedef long TB;", Absent) }

\* The subset lists: one feature subset listing types and commands
ResolveSubsets ==
    { <<APISubset("VERSION_1_0", ts, <<>>, cs)>> :
        ts \in {<<>>, <<"TA">>, <<"TB">>}, cs \in {<<>>, <<"glA">>, <<"glB">>, <<"glX">>} }

InitResolve ==
    /\ ProfileReturned(Version("1", "0", ""), <<>>)
    /\ root = EmptyRoot
    /\ pc = "resolve"
    /\ types \in SeqsUpTo(ResolvedTypes, MaxTypes)
    /\ enums = EmptyDict
    /\ commands = parse_xml_commands([EmptyRoot EXCEPT !.commands = <<CmdA, CmdB, CmdC>>])
    /\ subsets \in ResolveSubsets
    /\ subsetsGL = subsets /\ subsetsEXT = <<>>
    /\ printed = <<>> /\ requiredTypes = {}
    /\ passthru = "" /\ enumsDecl = "" /\ functions = <<>>
    /\ raised = NoError

NextResolve == ResolveTypeDependencies

SpecResolve == InitResolve /\ [][NextResolve]_vars

\* ------------------------------------------------------------ C2

\* The type names the subsets and their commands refer to directly
Direct ==
    UNION {Range(subsets[i].types) : i \in 1..Len(subsets)}
    \cup UNION {commands[c].requiredTypes :
                   c \in UNION {Range(subsets[i].commands) : i \in 1..Len(subsets)}}

\* C2 as stated: the result is the directly referenced types and the dependent
\* of each of them, and nothing reached through two dependent links.
C2_OneHopOnly ==
    pc = "passthru" =>
        requiredTypes = Direct \cup {t.dependent : t \in {u \in Range(types) :
                                                            u.name \in Direct /\ Truthy(u.dependent)}}

\* ------------------------------------------------- inputs of generate_functions

MaxSubsets == 3

\* The subsets a subset list is drawn from
FunctionSubsets ==
    { APISubset(n, <<>>, <<>>, cs) :
        n \in {"VERSION_1_0", "foo"},
        cs \in { <<>>, <<"glA">>, <<"glA", "glB">>, <<"glB", "glA", "glB">>, <<"glC", "glA">>,
                 <<"glX">> } }

InitFunctions ==
    /\ ProfileReturned(Version("1", "0", ""), <<>>)
    /\ root = EmptyRoot
    /\ pc = "functions"
    /\ types = <<>>
    /\ enums = EmptyDict
    /\ commands = parse_xml_commands([EmptyRoot EXCEPT !.commands = <<CmdA, CmdB, CmdC>>])
    /\ subsets \in SeqsUpTo(FunctionSubsets, MaxSubsets)
    /\ subsetsGL = subsets /\ subsetsEXT = <<>>
    /\ printed = <<>> /\ requiredTypes = {}
    /\ passthru = "" /\ enumsDecl = "" /\ functions = <<>>
    /\ raised = NoError

NextFunctions == GenerateFunctions

SpecFunctions == InitFunctions /\ [][NextFunctions]_vars

\* ------------------------------------------------------------ C5

\* Position p of subset i's command list is the first place, over all subsets
\* in order, where its command occurs
FirstOccurrence(i, p) ==
    LET name == subsets[i].commands[p]
    IN  /\ \A h \in 1..(i - 1) : name \notin Range(subsets[h].commands)
        /\ \A q \in 1..(p - 1) : subsets[i].commands[q] # name

\* The commands of subset i at their first occurrence, in the list's order
FirstCommands(i) ==
    LET cs   == subsets[i].commands
        kept == SelectSeq([p \in 1..Len(cs) |-> p], LAMBDA p : FirstOccurrence(i, p))
    IN  [q \in 1..Len(kept) |-> cs[kept[q]]]

\* C5: one group per subset, in subset order, under the subset's name; a group
\* holds exactly the commands whose first occurrence is in its subset, in the
\* subset's order, each named without its two-letter prefix.
C5_FirstOccurrenceDedup ==
    pc = "done" =>
        /\ Len(functions) = Len(subsets)
        /\ \A i \in 1..Len(subsets) :
              /\ functions[i][1] = subsets[i].name
              /\ NamesIn(functions[i][2]) =
                    [q \in 1..Len(FirstCommands(i)) |->
                        SubSeq(FirstCommands(i)[q], 3, Len(FirstCommands(i)[q]))]

\* glA in a feature subset and again in a later extension subset: listed under
\* the feature only.
C5_Witness ==
    /\ pc = "done"
    /\ Len(subsets) = 2
    /\ subsets[1].commands = <<"glA", "glB">>
    /\ subsets[2].commands = <<"glC", "glA">>
    /\ NamesIn(functions[1][2]) = <<"A", "B">>
    /\ NamesIn(functions[2][2]) = <<"C">>

====
